---- MODULE Spec2Model ----
(***************************************************************************)
(* Tic-Tac-Toe self-play engine of tictactoe_ai.py: rules engine,          *)
(* alpha-beta minimax, heuristic strategies, tabular Q-learning agents     *)
(* and the play_self_game / train_q_learning_agent orchestration.          *)
(*                                                                         *)
(* Conventions of the model                                                *)
(*  - the board is a function on 0..8 with the marks " ", "X", "O";        *)
(*    None is the string "None";                                           *)
(*  - the code mutates self.board in place; an operator that models a      *)
(*    method which writes the board takes the board and returns it next    *)
(*    to the method's result (field board);                                *)
(*  - a method that draws from random returns the SET of values it can     *)
(*    return (field ret); the empty set is a call that raises;             *)
(*  - floats are exact rationals <<numerator, denominator>>;               *)
(*  - a q_table is the function of the pairs <<state, action>> that were   *)
(*    written; a pair outside its domain reads 0.0 as the defaultdict does. *)
(***************************************************************************)
EXTENDS Integers, Sequences, FiniteSets, TLC

VARIABLES
    board,              \* self.board
    current_player,     \* self.current_player
    strategy_x,         \* self.strategy_x
    strategy_o,         \* self.strategy_o
    q_agent_x,          \* self.q_agent_x.q_table
    q_agent_o,          \* self.q_agent_o.q_table
    game_states,        \* self.game_states
    current_game_moves, \* self.current_game_moves
    pc,                 \* position of the running call
    training,           \* play_self_game's parameter training
    collect_data,       \* play_self_game's parameter collect_data
    winner,             \* play_self_game's local winner / return value
    data_collector,     \* self.data_collector: games_data, current_game_id
    train,              \* train_q_learning_agent's frame: original_x, original_o, i, episodes
    call,               \* the last direct method call and what it returned
    file,               \* the value-table file on disk that save/load name
    hist                \* observations of the run (history variable)

vars == <<board, current_player, strategy_x, strategy_o, q_agent_x, q_agent_o,
          game_states, current_game_moves, pc, training, collect_data, winner,
          data_collector, train, call, file, hist>>

-----------------------------------------------------------------------------
(* Bounds of the model *)

MaxGames == 2

MaxExplore == 1

MaxEpisodes == 2

-----------------------------------------------------------------------------
(* Values *)

Cells == 0..8

Marks == {" ", "X", "O"}

Players == {"X", "O"}

MINIMAX == "minimax"

Q_LEARNING == "q_learning"

RANDOM == "random"

AGGRESSIVE == "aggressive"

DEFENSIVE == "defensive"

HYBRID == "hybrid"

Strategy == {MINIMAX, Q_LEARNING, RANDOM, AGGRESSIVE, DEFENSIVE, HYBRID}

Inf == 1000

Range(s) == {s[i] : i \in 1..Len(s)}

Max(a, b) == IF a >= b THEN a ELSE b

Min(a, b) == IF a <= b THEN a ELSE b

-----------------------------------------------------------------------------
(* Floats as exact rationals <<n, d>>, d > 0, in lowest terms *)

Abs(n) == IF n < 0 THEN -n ELSE n

RECURSIVE Gcd(_, _)
Gcd(a, b) == IF b = 0 THEN a ELSE Gcd(b, a % b)

Norm(n, d) ==
    LET g == Gcd(Abs(n), d) IN IF g = 0 THEN <<0, 1>> ELSE <<n \div g, d \div g>>

RAdd(p, q) == Norm(p[1] * q[2] + q[1] * p[2], p[2] * q[2])

RSub(p, q) == Norm(p[1] * q[2] - q[1] * p[2], p[2] * q[2])

RMul(p, q) == Norm(p[1] * q[1], p[2] * q[2])

RLess(p, q) == p[1] * q[2] < q[1] * p[2]

Float(n) == <<n, 1>>

-----------------------------------------------------------------------------
(* Rules engine *)

EmptyBoard == [i \in Cells |-> " "]

\* reset_board that puts X on the move but leaves the marks on the board
reset_board_keeps_marks == [board |-> board, current_player |-> "X"]

reset_board == [board |-> EmptyBoard, current_player |-> "X"]

is_valid_move(b, position) == 0 <= position /\ position < 9 /\ b[position] = " "

\* make_move that checks the range only
make_move_overwrite(b, position, player) ==
    IF 0 <= position /\ position < 9
    THEN [ret |-> TRUE, board |-> [b EXCEPT ![position] = player]]
    ELSE [ret |-> FALSE, board |-> b]

make_move(b, position, player) ==
    IF is_valid_move(b, position)
    THEN [ret |-> TRUE, board |-> [b EXCEPT ![position] = player]]
    ELSE [ret |-> FALSE, board |-> b]

wins == << <<0, 1, 2>>, <<3, 4, 5>>, <<6, 7, 8>>,
           <<0, 3, 6>>, <<1, 4, 7>>, <<2, 5, 8>>,
           <<0, 4, 8>>, <<2, 4, 6>> >>

RECURSIVE ScanWins(_, _)
ScanWins(b, k) ==
    IF k > Len(wins) THEN "None"
    ELSE LET combo == wins[k] IN
         IF b[combo[1]] = b[combo[2]] /\ b[combo[2]] = b[combo[3]] /\ b[combo[3]] /= " "
         THEN b[combo[1]]
         ELSE ScanWins(b, k + 1)

\* check_winner with the tie check ahead of the scan of the lines
check_winner_tie_first(b) ==
    IF \A i \in Cells : b[i] /= " " THEN "Tie" ELSE ScanWins(b, 1)

check_winner(b) ==
    LET w == ScanWins(b, 1) IN
    IF w /= "None" THEN w
    ELSE IF \A i \in Cells : b[i] /= " " THEN "Tie"
    ELSE "None"

RECURSIVE AvailFrom(_, _)
AvailFrom(b, i) ==
    IF i >= 9 THEN <<>>
    ELSE IF b[i] = " " THEN <<i>> \o AvailFrom(b, i + 1)
    ELSE AvailFrom(b, i + 1)

get_available_moves(b) == AvailFrom(b, 0)

-----------------------------------------------------------------------------
(* Adversarial search *)

RECURSIVE minimax(_, _, _, _, _)
RECURSIVE MaxLoop(_, _, _, _, _, _)
RECURSIVE MinLoop(_, _, _, _, _, _)

\* the maximizing loop that breaks after the first move it has scored
MaxLoopFirstOnly(b, depth, moves, max_eval, alpha, beta) ==
    IF moves = <<>> THEN [ret |-> max_eval, board |-> b]
    ELSE LET move == Head(moves)
             r    == minimax([b EXCEPT ![move] = "X"], depth + 1, FALSE, alpha, beta)
         IN  [ret |-> Max(max_eval, r.ret), board |-> [r.board EXCEPT ![move] = " "]]

\* the minimizing loop that breaks after the first reply it has scored
MinLoopFirstOnly(b, depth, moves, min_eval, alpha, beta) ==
    IF moves = <<>> THEN [ret |-> min_eval, board |-> b]
    ELSE LET move == Head(moves)
             r    == minimax([b EXCEPT ![move] = "O"], depth + 1, TRUE, alpha, beta)
         IN  [ret |-> Min(min_eval, r.ret), board |-> [r.board EXCEPT ![move] = " "]]

MaxLoop(b, depth, moves, max_eval, alpha, beta) ==
    IF moves = <<>> THEN [ret |-> max_eval, board |-> b]
    ELSE LET move == Head(moves)
             r    == minimax([b EXCEPT ![move] = "X"], depth + 1, FALSE, alpha, beta)
             b2   == [r.board EXCEPT ![move] = " "]
             me   == Max(max_eval, r.ret)
             a2   == Max(alpha, r.ret)
         IN  IF beta <= a2 THEN [ret |-> me, board |-> b2]
             ELSE MaxLoop(b2, depth, Tail(moves), me, a2, beta)

MinLoop(b, depth, moves, min_eval, alpha, beta) ==
    IF moves = <<>> THEN [ret |-> min_eval, board |-> b]
    ELSE LET move == Head(moves)
             r    == minimax([b EXCEPT ![move] = "O"], depth + 1, TRUE, alpha, beta)
             b2   == [r.board EXCEPT ![move] = " "]
             me   == Min(min_eval, r.ret)
             be2  == Min(beta, r.ret)
         IN  IF be2 <= alpha THEN [ret |-> me, board |-> b2]
             ELSE MinLoop(b2, depth, Tail(moves), me, alpha, be2)

\* minimax whose terminal scores ignore the depth
minimax_no_depth(b, depth, is_maximizing, alpha, beta) ==
    LET w == check_winner(b) IN
    IF w = "X" THEN [ret |-> 10, board |-> b]
    ELSE IF w = "O" THEN [ret |-> -10, board |-> b]
    ELSE IF w = "Tie" THEN [ret |-> 0, board |-> b]
    ELSE IF is_maximizing
         THEN MaxLoop(b, depth, get_available_moves(b), -Inf, alpha, beta)
         ELSE MinLoop(b, depth, get_available_moves(b), Inf, alpha, beta)

minimax(b, depth, is_maximizing, alpha, beta) ==
    LET w == check_winner(b) IN
    IF w = "X" THEN [ret |-> 10 - depth, board |-> b]
    ELSE IF w = "O" THEN [ret |-> depth - 10, board |-> b]
    ELSE IF w = "Tie" THEN [ret |-> 0, board |-> b]
    ELSE IF is_maximizing
         THEN MaxLoop(b, depth, get_available_moves(b), -Inf, alpha, beta)
         ELSE MinLoop(b, depth, get_available_moves(b), Inf, alpha, beta)

\* BestLoop with the side to move next confused (minimax told that the mover
\* moves again)
RECURSIVE BestLoopSameSide(_, _, _, _, _)
BestLoopSameSide(b, player, moves, best_score, best_move) ==
    IF moves = <<>> THEN [ret |-> best_move, board |-> b]
    ELSE LET move == Head(moves)
             r    == minimax([b EXCEPT ![move] = player], 0, player = "X", -Inf, Inf)
             b2   == [r.board EXCEPT ![move] = " "]
         IN  IF player = "X" /\ r.ret > best_score
             THEN BestLoopSameSide(b2, player, Tail(moves), r.ret, move)
             ELSE IF player = "O" /\ r.ret < best_score
             THEN BestLoopSameSide(b2, player, Tail(moves), r.ret, move)
             ELSE BestLoopSameSide(b2, player, Tail(moves), best_score, best_move)

\* BestLoop with >= / <= in place of the strict comparisons
RECURSIVE BestLoopLastBest(_, _, _, _, _)
BestLoopLastBest(b, player, moves, best_score, best_move) ==
    IF moves = <<>> THEN [ret |-> best_move, board |-> b]
    ELSE LET move == Head(moves)
             r    == minimax([b EXCEPT ![move] = player], 0, player = "O", -Inf, Inf)
             b2   == [r.board EXCEPT ![move] = " "]
         IN  IF player = "X" /\ r.ret >= best_score
             THEN BestLoopLastBest(b2, player, Tail(moves), r.ret, move)
             ELSE IF player = "O" /\ r.ret <= best_score
             THEN BestLoopLastBest(b2, player, Tail(moves), r.ret, move)
             ELSE BestLoopLastBest(b2, player, Tail(moves), best_score, best_move)

\* the loop of get_best_move (lines 305-317)
RECURSIVE BestLoop(_, _, _, _, _)
BestLoop(b, player, moves, best_score, best_move) ==
    IF moves = <<>> THEN [ret |-> best_move, board |-> b]
    ELSE LET move == Head(moves)
             r    == minimax([b EXCEPT ![move] = player], 0, player = "O", -Inf, Inf)
             b2   == [r.board EXCEPT ![move] = " "]
         IN  IF player = "X" /\ r.ret > best_score
             THEN BestLoop(b2, player, Tail(moves), r.ret, move)
             ELSE IF player = "O" /\ r.ret < best_score
             THEN BestLoop(b2, player, Tail(moves), r.ret, move)
             ELSE BestLoop(b2, player, Tail(moves), best_score, best_move)

\* the first-level scores with the search entered at depth 1
first_level_scores_depth_one(b, player) ==
    [move \in Range(get_available_moves(b)) |->
        minimax([b EXCEPT ![move] = player], 1, player = "O", -Inf, Inf).ret]

\* the values the local variable score takes in get_best_move (line 307), by move
first_level_scores(b, player) ==
    [move \in Range(get_available_moves(b)) |->
        minimax([b EXCEPT ![move] = player], 0, player = "O", -Inf, Inf).ret]

get_best_move(b, player) ==
    BestLoop(b, player, get_available_moves(b), IF player = "X" THEN -Inf ELSE Inf, -1)

-----------------------------------------------------------------------------
(* Heuristic strategies *)

random_choice(seq) == Range(seq)

get_random_move(b) == [ret |-> random_choice(get_available_moves(b)), board |-> b]

\* The loop "for move in available: place mark; if check_winner() == mark:
\* undo, return move; undo" shared by the aggressive and defensive strategies.
\* ret = -1 when the loop ends without returning.
\* WinLoop that returns without taking the trial mark back
RECURSIVE WinLoopLeavesMark(_, _, _)
WinLoopLeavesMark(b, mark, moves) ==
    IF moves = <<>> THEN [ret |-> -1, board |-> b]
    ELSE LET move == Head(moves)
             b1   == [b EXCEPT ![move] = mark]
             b2   == [b1 EXCEPT ![move] = " "]
         IN  IF check_winner(b1) = mark THEN [ret |-> move, board |-> b1]
             ELSE WinLoopLeavesMark(b2, mark, Tail(moves))

RECURSIVE WinLoop(_, _, _)
WinLoop(b, mark, moves) ==
    IF moves = <<>> THEN [ret |-> -1, board |-> b]
    ELSE LET move == Head(moves)
             b1   == [b EXCEPT ![move] = mark]
             b2   == [b1 EXCEPT ![move] = " "]
         IN  IF check_winner(b1) = mark THEN [ret |-> move, board |-> b2]
             ELSE WinLoop(b2, mark, Tail(moves))

SelectSeq2(seq, S) == SelectSeq(seq, LAMBDA m : m \in S)

\* get_aggressive_move with the centre tried ahead of the winning moves
get_aggressive_move_centre_first(b, player) ==
    LET available    == get_available_moves(b)
        w            == WinLoop(b, player, available)
        corner_moves == SelectSeq2(available, {0, 2, 6, 8})
    IN  IF 4 \in Range(available) THEN [ret |-> {4}, board |-> b]
        ELSE IF w.ret /= -1 THEN [ret |-> {w.ret}, board |-> w.board]
        ELSE IF corner_moves /= <<>>
             THEN [ret |-> random_choice(corner_moves), board |-> w.board]
        ELSE [ret |-> random_choice(available), board |-> w.board]

\* get_aggressive_move with the corners tried ahead of the centre
get_aggressive_move_corner_first(b, player) ==
    LET available    == get_available_moves(b)
        w            == WinLoop(b, player, available)
        corner_moves == SelectSeq2(available, {0, 2, 6, 8})
    IN  IF w.ret /= -1 THEN [ret |-> {w.ret}, board |-> w.board]
        ELSE IF corner_moves /= <<>>
             THEN [ret |-> random_choice(corner_moves), board |-> w.board]
        ELSE IF 4 \in Range(available) THEN [ret |-> {4}, board |-> w.board]
        ELSE [ret |-> random_choice(available), board |-> w.board]

get_aggressive_move(b, player) ==
    LET available    == get_available_moves(b)
        w            == WinLoop(b, player, available)
        corner_moves == SelectSeq2(available, {0, 2, 6, 8})
    IN  IF w.ret /= -1 THEN [ret |-> {w.ret}, board |-> w.board]
        ELSE IF 4 \in Range(available) THEN [ret |-> {4}, board |-> w.board]
        ELSE IF corner_moves /= <<>>
             THEN [ret |-> random_choice(corner_moves), board |-> w.board]
        ELSE [ret |-> random_choice(available), board |-> w.board]

\* get_defensive_move with the own winning move tried ahead of the block
get_defensive_move_win_first(b, player) ==
    LET available  == get_available_moves(b)
        opponent   == IF player = "X" THEN "O" ELSE "X"
        w          == WinLoop(b, player, available)
        blk        == WinLoop(w.board, opponent, available)
        edge_moves == SelectSeq2(available, {1, 3, 5, 7})
    IN  IF w.ret /= -1 THEN [ret |-> {w.ret}, board |-> w.board]
        ELSE IF blk.ret /= -1 THEN [ret |-> {blk.ret}, board |-> blk.board]
        ELSE IF 4 \in Range(available) THEN [ret |-> {4}, board |-> blk.board]
        ELSE IF edge_moves /= <<>>
             THEN [ret |-> random_choice(edge_moves), board |-> blk.board]
        ELSE [ret |-> random_choice(available), board |-> blk.board]

\* get_defensive_move that prefers the corners to the edges
get_defensive_move_corner_first(b, player) ==
    LET available    == get_available_moves(b)
        opponent     == IF player = "X" THEN "O" ELSE "X"
        blk          == WinLoop(b, opponent, available)
        w            == WinLoop(blk.board, player, available)
        corner_moves == SelectSeq2(available, {0, 2, 6, 8})
    IN  IF blk.ret /= -1 THEN [ret |-> {blk.ret}, board |-> blk.board]
        ELSE IF w.ret /= -1 THEN [ret |-> {w.ret}, board |-> w.board]
        ELSE IF 4 \in Range(available) THEN [ret |-> {4}, board |-> w.board]
        ELSE IF corner_moves /= <<>>
             THEN [ret |-> random_choice(corner_moves), board |-> w.board]
        ELSE [ret |-> random_choice(available), board |-> w.board]

get_defensive_move(b, player) ==
    LET available  == get_available_moves(b)
        opponent   == IF player = "X" THEN "O" ELSE "X"
        blk        == WinLoop(b, opponent, available)
        w          == WinLoop(blk.board, player, available)
        edge_moves == SelectSeq2(available, {1, 3, 5, 7})
    IN  IF blk.ret /= -1 THEN [ret |-> {blk.ret}, board |-> blk.board]
        ELSE IF w.ret /= -1 THEN [ret |-> {w.ret}, board |-> w.board]
        ELSE IF 4 \in Range(available) THEN [ret |-> {4}, board |-> w.board]
        ELSE IF edge_moves /= <<>>
             THEN [ret |-> random_choice(edge_moves), board |-> w.board]
        ELSE [ret |-> random_choice(available), board |-> w.board]

\* get_hybrid_move that keeps the heuristic for one ply more
get_hybrid_move_late_switch(b, player) ==
    LET available == get_available_moves(b) IN
    IF Len(available) > 5 THEN get_aggressive_move(b, player)
    ELSE LET r == get_best_move(b, player) IN [ret |-> {r.ret}, board |-> r.board]

get_hybrid_move(b, player) ==
    LET available == get_available_moves(b) IN
    IF Len(available) > 6 THEN get_aggressive_move(b, player)
    ELSE LET r == get_best_move(b, player) IN [ret |-> {r.ret}, board |-> r.board]

-----------------------------------------------------------------------------
(* QLearningAgent *)

learning_rate == <<1, 10>>

discount_factor == <<9, 10>>

epsilon == <<1, 10>>

EmptyTable == [x \in {} |-> Float(0)]

\* ''.join(board): character j of the key is cell j of the board
get_state_key(b) == [i \in 1..9 |-> b[i - 1]]

get_q_value(q, state, action) ==
    IF <<state, action>> \in DOMAIN q THEN q[<<state, action>>] ELSE Float(0)

RECURSIVE MaxQ(_, _, _)
MaxQ(q, state, actions) ==
    LET v == get_q_value(q, state, Head(actions)) IN
    IF Len(actions) = 1 THEN v
    ELSE LET m == MaxQ(q, state, Tail(actions)) IN IF RLess(v, m) THEN m ELSE v

\* update_q_value without the look-ahead term
update_q_value_no_lookahead(q, state, action, reward, next_state, available_actions) ==
    LET current_q == get_q_value(q, state, action)
        new_q     == RAdd(current_q, RMul(learning_rate, RSub(Float(reward), current_q)))
    IN  [x \in DOMAIN q \cup {<<state, action>>} |->
            IF x = <<state, action>> THEN new_q ELSE q[x]]

update_q_value(q, state, action, reward, next_state, available_actions) ==
    LET current_q  == get_q_value(q, state, action)
        max_next_q == IF available_actions /= <<>>
                      THEN MaxQ(q, next_state, available_actions)
                      ELSE Float(0)
        new_q      == RAdd(current_q,
                           RMul(learning_rate,
                                RSub(RAdd(Float(reward), RMul(discount_factor, max_next_q)),
                                     current_q)))
    IN  [x \in DOMAIN q \cup {<<state, action>>} |->
            IF x = <<state, action>> THEN new_q ELSE q[x]]

\* the arg-max that lets a later key of equal value replace an earlier one
RECURSIVE ArgMaxLast(_, _, _, _)
ArgMaxLast(q, state, actions, best) ==
    IF actions = <<>> THEN best
    ELSE IF RLess(get_q_value(q, state, Head(actions)), get_q_value(q, state, best))
         THEN ArgMaxLast(q, state, Tail(actions), best)
         ELSE ArgMaxLast(q, state, Tail(actions), Head(actions))

\* max(q_values, key=q_values.get): the first key, in insertion order, whose
\* value no later key exceeds strictly
RECURSIVE ArgMaxFirst(_, _, _, _)
ArgMaxFirst(q, state, actions, best) ==
    IF actions = <<>> THEN best
    ELSE IF RLess(get_q_value(q, state, best), get_q_value(q, state, Head(actions)))
         THEN ArgMaxFirst(q, state, Tail(actions), Head(actions))
         ELSE ArgMaxFirst(q, state, Tail(actions), best)

\* choose_action looking at every cell instead of the available actions
choose_action_any_cell(q, state, available_actions, is_training) ==
    LET all == [i \in 1..9 |-> i - 1]
        g   == ArgMaxFirst(q, state, Tail(all), Head(all))
    IN  [ret    |-> {g} \cup (IF is_training /\ RLess(Float(0), epsilon)
                              THEN random_choice(all) ELSE {}),
         greedy |-> g]

\* ret: every value the call can return; greedy: the value of the last line
choose_action(q, state, available_actions, is_training) ==
    IF available_actions = <<>> THEN [ret |-> {}, greedy |-> -1]
    ELSE LET g == ArgMaxFirst(q, state, Tail(available_actions), Head(available_actions))
         IN  [ret    |-> {g} \cup (IF is_training /\ RLess(Float(0), epsilon)
                                   THEN random_choice(available_actions) ELSE {}),
              greedy |-> g]

-----------------------------------------------------------------------------
(* QLearningAgent: save_q_table / load_q_table

   The file: exists - it is there; json - its text parses as JSON; object - the
   JSON value is an object (a dict after json.load) whose members are objects;
   entries - the members of the inner objects in file order, each with its
   state key, its member name (the action as text: a sequence of characters)
   and its number (decimal text). An inner object without members does not
   show in entries; such a state reads 0.0 at every action in any case.

   Numbers: json writes a float as the shortest decimal that reads back as
   the same float; the values of the model are decimal fractions and are
   written digit by digit. *)

NoFile == [exists |-> FALSE, json |-> FALSE, object |-> FALSE, entries |-> <<>>]

Digits == <<"0", "1", "2", "3", "4", "5", "6", "7", "8", "9">>

RECURSIVE NatToStr(_)
NatToStr(n) ==
    IF n < 10 THEN <<Digits[n + 1]>>
    ELSE Append(NatToStr(n \div 10), Digits[(n % 10) + 1])

\* the text json.dump writes for an int key
int_to_str(n) == IF n < 0 THEN <<"-">> \o NatToStr(-n) ELSE NatToStr(n)

DigitValue(c) == CHOOSE d \in 0..9 : Digits[d + 1] = c

IsDigits(s) == s /= <<>> /\ \A i \in 1..Len(s) : s[i] \in Range(Digits)

RECURSIVE StrToNat(_)
StrToNat(s) ==
    IF s = <<>> THEN 0
    ELSE 10 * StrToNat(SubSeq(s, 1, Len(s) - 1)) + DigitValue(s[Len(s)])

\* int(action): ok is FALSE where int raises ValueError
str_to_int(s) ==
    IF IsDigits(s) THEN [ok |-> TRUE, value |-> StrToNat(s)]
    ELSE IF s /= <<>> /\ s[1] \in {"-", "+"} /\ IsDigits(Tail(s))
    THEN [ok |-> TRUE, value |-> IF s[1] = "-" THEN -StrToNat(Tail(s)) ELSE StrToNat(Tail(s))]
    ELSE [ok |-> FALSE, value |-> 0]

\* the number of decimal places of a fraction with denominator d
RECURSIVE ScaleOf(_, _)
ScaleOf(d, k) == IF (10 ^ k) % d = 0 THEN k ELSE ScaleOf(d, k + 1)

\* the decimal text of a float: sign, digits, number of digits after the point
float_repr(v) ==
    LET k == ScaleOf(v[2], 0) IN
    [neg |-> v[1] < 0, digits |-> NatToStr(Abs(v[1]) * ((10 ^ k) \div v[2])), places |-> k]

\* the float of a decimal text
float_parse(t) ==
    Norm((IF t.neg THEN -1 ELSE 1) * StrToNat(t.digits), 10 ^ t.places)

\* json.dump of {state: dict(actions)}: one entry per written pair (the order
\* of the dict is not kept by the table of the model; a fixed order is taken)
RECURSIVE DumpEntries(_, _)
DumpEntries(q, todo) ==
    IF todo = {} THEN <<>>
    ELSE LET pair == CHOOSE x \in todo : TRUE
         IN  <<[state |-> pair[1], action |-> int_to_str(pair[2]),
                value |-> float_repr(q[pair])]>> \o DumpEntries(q, todo \ {pair})

\* the file after save_q_table
save_q_table(q) ==
    [exists |-> TRUE, json |-> TRUE, object |-> TRUE, entries |-> DumpEntries(q, DOMAIN q)]

\* lines 200-202; raised: the exception that leaves the loop, or None
RECURSIVE LoadLoop(_, _)
LoadLoop(q, entries) ==
    IF entries = <<>> THEN [q_table |-> q, raised |-> "None"]
    ELSE LET en == Head(entries)
             a  == str_to_int(en.action)
         IN  IF ~a.ok THEN [q_table |-> q, raised |-> "ValueError"]
             ELSE LoadLoop([x \in DOMAIN q \cup {<<en.state, a.value>>} |->
                               IF x = <<en.state, a.value>> THEN float_parse(en.value)
                               ELSE q[x]],
                           Tail(entries))

\* load_q_table that fills the table it finds instead of a fresh one
load_q_table_merge(q, f) ==
    IF ~f.exists THEN [q_table |-> q, raised |-> "None"]
    ELSE IF ~f.json THEN [q_table |-> q, raised |-> "JSONDecodeError"]
    ELSE IF ~f.object THEN [q_table |-> q, raised |-> "AttributeError"]
    ELSE LoadLoop(q, f.entries)

\* q_table: the agent's table after the call; raised: the exception that
\* reaches the caller, or None. Only FileNotFoundError is caught (line 203):
\* the table is assigned at line 199, after open and json.load went through.
load_q_table(q, f) ==
    IF ~f.exists THEN [q_table |-> q, raised |-> "None"]
    ELSE IF ~f.json THEN [q_table |-> q, raised |-> "JSONDecodeError"]
    ELSE IF ~f.object THEN [q_table |-> EmptyTable, raised |-> "AttributeError"]
    ELSE LoadLoop(EmptyTable, f.entries)

-----------------------------------------------------------------------------
(* TicTacToeAI: strategy dispatch and learning *)

\* get_move_by_strategy that hands every learned choice to the X agent
get_move_by_strategy_x_agent(b, player, strategy, is_training, qx, qo) ==
    IF strategy = MINIMAX
    THEN LET r == get_best_move(b, player) IN [ret |-> {r.ret}, board |-> r.board]
    ELSE IF strategy = Q_LEARNING
    THEN [ret   |-> choose_action(qx, get_state_key(b), get_available_moves(b),
                                  is_training).ret,
          board |-> b]
    ELSE IF strategy = RANDOM THEN get_random_move(b)
    ELSE IF strategy = AGGRESSIVE THEN get_aggressive_move(b, player)
    ELSE IF strategy = DEFENSIVE THEN get_defensive_move(b, player)
    ELSE IF strategy = HYBRID THEN get_hybrid_move(b, player)
    ELSE LET r == get_best_move(b, player) IN [ret |-> {r.ret}, board |-> r.board]

get_move_by_strategy(b, player, strategy, is_training, qx, qo) ==
    IF strategy = MINIMAX
    THEN LET r == get_best_move(b, player) IN [ret |-> {r.ret}, board |-> r.board]
    ELSE IF strategy = Q_LEARNING
    THEN LET agent == IF player = "X" THEN qx ELSE qo
             state == get_state_key(b)
         IN  [ret   |-> choose_action(agent, state, get_available_moves(b), is_training).ret,
              board |-> b]
    ELSE IF strategy = RANDOM THEN get_random_move(b)
    ELSE IF strategy = AGGRESSIVE THEN get_aggressive_move(b, player)
    ELSE IF strategy = DEFENSIVE THEN get_defensive_move(b, player)
    ELSE IF strategy = HYBRID THEN get_hybrid_move(b, player)
    ELSE LET r == get_best_move(b, player) IN [ret |-> {r.ret}, board |-> r.board]

rewards == [w \in {"X", "O", "Tie"} |-> IF w = "X" THEN 1 ELSE IF w = "O" THEN -1 ELSE 0]

rewards_get(w, default) == IF w \in DOMAIN rewards THEN rewards[w] ELSE default

\* [j for j in range(9) if list(next_state)[j] == ' ']
RECURSIVE NextAvailFrom(_, _)
NextAvailFrom(next_state, j) ==
    IF j >= 9 THEN <<>>
    ELSE IF next_state[j + 1] = " " THEN <<j>> \o NextAvailFrom(next_state, j + 1)
    ELSE NextAvailFrom(next_state, j + 1)

\* UpdateArgs that looks ahead to the acting agent's own next turn
UpdateArgsOwnNextTurn(gs, i, w) ==
    LET state  == gs[i][1]
        action == gs[i][2]
        player == gs[i][3]
        reward == IF player = "X"
                  THEN (IF w = "X" THEN rewards_get(w, 0)
                        ELSE IF w = "Tie" THEN 0 ELSE -1)
                  ELSE (IF w = "O" THEN rewards_get(w, 0)
                        ELSE IF w = "Tie" THEN 0 ELSE -1)
        last   == ~(i + 2 <= Len(gs))
    IN  [agent          |-> player,
         state          |-> state,
         action         |-> action,
         reward         |-> reward,
         next_state     |-> IF last THEN state ELSE gs[i + 2][1],
         next_available |-> IF last THEN <<>> ELSE NextAvailFrom(gs[i + 2][1], 0)]

\* One iteration of update_q_learning's loop for entry i (1-based) of gs:
\* the arguments it passes to agent.update_q_value
UpdateArgs(gs, i, w) ==
    LET state  == gs[i][1]
        action == gs[i][2]
        player == gs[i][3]
        reward == IF player = "X"
                  THEN (IF w = "X" THEN rewards_get(w, 0)
                        ELSE IF w = "Tie" THEN 0 ELSE -1)
                  ELSE (IF w = "O" THEN rewards_get(w, 0)
                        ELSE IF w = "Tie" THEN 0 ELSE -1)
        last   == ~(i + 1 <= Len(gs))
    IN  [agent          |-> player,
         state          |-> state,
         action         |-> action,
         reward         |-> reward,
         next_state     |-> IF last THEN state ELSE gs[i + 1][1],
         next_available |-> IF last THEN <<>> ELSE NextAvailFrom(gs[i + 1][1], 0)]

\* update_q_learning writing every entry to the X agent's table
RECURSIVE UpdateLoopOneTable(_, _, _, _, _, _)
UpdateLoopOneTable(gs, i, w, qx, qo, calls) ==
    IF i > Len(gs) THEN [q_agent_x |-> qx, q_agent_o |-> qo, calls |-> calls]
    ELSE LET a == UpdateArgs(gs, i, w)
         IN  UpdateLoopOneTable(gs, i + 1, w,
                                update_q_value(qx, a.state, a.action, a.reward,
                                               a.next_state, a.next_available),
                                qo, Append(calls, a))

\* calls: the update_q_value calls made, in order
RECURSIVE UpdateLoop(_, _, _, _, _, _)
UpdateLoop(gs, i, w, qx, qo, calls) ==
    IF i > Len(gs) THEN [q_agent_x |-> qx, q_agent_o |-> qo, calls |-> calls]
    ELSE LET a == UpdateArgs(gs, i, w)
         IN  IF a.agent = "X"
             THEN UpdateLoop(gs, i + 1, w,
                             update_q_value(qx, a.state, a.action, a.reward,
                                            a.next_state, a.next_available),
                             qo, Append(calls, a))
             ELSE UpdateLoop(gs, i + 1, w, qx,
                             update_q_value(qo, a.state, a.action, a.reward,
                                            a.next_state, a.next_available),
                             Append(calls, a))

update_q_learning(w, gs, qx, qo) == UpdateLoop(gs, 1, w, qx, qo, <<>>)

-----------------------------------------------------------------------------
(* play_self_game *)

NoCall == [op |-> "none"]

NoTrain == [active |-> FALSE]

HistInit == [games    |-> 0,      \* play_self_game calls so far
             movers   |-> <<>>,   \* the players whose turns were taken in this game
             opening  |-> -1,     \* the opening cell of a game driven by direct calls
             explores |-> 0,      \* exploratory (non-greedy) choices so far
             updates  |-> <<>>,   \* update_q_value calls of the last update_q_learning
             rejected |-> FALSE,  \* make_move returned False in the last iteration
             faults   |-> 0,      \* illegal cells handed to the loop so far
             q_before |-> <<EmptyTable, EmptyTable>>]  \* the tables when this game began

\* line 454 / 466 / 479
Learning == training /\ (strategy_x = Q_LEARNING \/ strategy_o = Q_LEARNING)

GameOverOnTieOnly(w) == w = "Tie"

\* line 473: if winner:
GameOver(w) == w /= "None"

SwitchPlayerStuck(p) == p

\* line 499
SwitchPlayer(p) == IF p = "X" THEN "O" ELSE "X"

\* GameRecord whose game_length leaves out the last ply
GameRecordShort(w, moves) ==
    [game_id           |-> data_collector.current_game_id,
     player_x_strategy |-> strategy_x,
     player_o_strategy |-> strategy_o,
     moves             |-> moves,
     winner            |-> w,
     game_length       |-> Len(moves) - 1]

GameRecord(w, moves) ==
    [game_id           |-> data_collector.current_game_id,
     player_x_strategy |-> strategy_x,
     player_o_strategy |-> strategy_o,
     moves             |-> moves,
     winner            |-> w,
     game_length       |-> Len(moves)]

\* The greedy choice of the acting agent; a Q_LEARNING move chosen in training
\* that differs from it is an exploratory draw.
Exploratory(move) ==
    /\ training
    /\ (IF current_player = "X" THEN strategy_x ELSE strategy_o) = Q_LEARNING
    /\ move /= choose_action(IF current_player = "X" THEN q_agent_x ELSE q_agent_o,
                             get_state_key(board), get_available_moves(board),
                             training).greedy

\* play_self_game up to the loop
PlaySelfGameEnter(tr, cd) ==
    /\ board' = reset_board.board
    /\ current_player' = reset_board.current_player
    /\ game_states' = <<>>
    /\ current_game_moves' = <<>>
    /\ training' = tr
    /\ collect_data' = cd
    /\ winner' = "None"
    /\ pc' = "loop"
    /\ hist' = [hist EXCEPT !.games = @ + 1, !.movers = <<>>, !.opening = -1,
                            !.rejected = FALSE, !.q_before = <<q_agent_x, q_agent_o>>]
    /\ UNCHANGED <<file, strategy_x, strategy_o, q_agent_x, q_agent_o, data_collector, call>>

play_self_game(tr, cd) ==
    /\ pc \in {"idle", "done"}
    /\ ~train.active
    /\ hist.games < MaxGames
    /\ PlaySelfGameEnter(tr, cd)
    /\ UNCHANGED train

\* One iteration of the while loop, r being what get_move_by_strategy returned
LoopBody(r) ==
    LET current_state == get_state_key(board) IN
    \E move \in r.ret :
        \E explo \in {Exploratory(move)} :
        LET cgm == IF collect_data
                   THEN Append(current_game_moves, <<current_state, move, current_player>>)
                   ELSE current_game_moves
            gs  == IF Learning
                   THEN Append(game_states, <<current_state, move, current_player>>)
                   ELSE game_states
            mm  == make_move(r.board, move, current_player)
        IN  \E w \in {check_winner(mm.board)} :
            /\ explo => hist.explores < MaxExplore
            /\ board' = mm.board
            /\ current_game_moves' = cgm
            /\ game_states' = gs
            /\ winner' = w
            /\ IF GameOver(w)
               THEN /\ pc' = "done"
                    /\ current_player' = current_player
                    /\ \E upd \in {IF Learning
                                   THEN update_q_learning(w, gs, q_agent_x, q_agent_o)
                                   ELSE [q_agent_x |-> q_agent_x, q_agent_o |-> q_agent_o,
                                         calls |-> hist.updates]} :
                         /\ q_agent_x' = upd.q_agent_x
                         /\ q_agent_o' = upd.q_agent_o
                         /\ hist' = [hist EXCEPT
                                       !.movers   = Append(@, current_player),
                                       !.rejected = ~mm.ret,
                                       !.faults   = IF mm.ret THEN @ ELSE @ + 1,
                                       !.explores = IF explo THEN @ + 1 ELSE @,
                                       !.updates  = upd.calls]
                    /\ data_collector' =
                         IF collect_data
                         THEN [games_data      |-> Append(data_collector.games_data,
                                                          GameRecord(w, cgm)),
                               current_game_id |-> data_collector.current_game_id + 1]
                         ELSE data_collector
               ELSE /\ pc' = "loop"
                    /\ current_player' = SwitchPlayer(current_player)
                    /\ hist' = [hist EXCEPT
                                  !.movers   = Append(@, current_player),
                                  !.rejected = ~mm.ret,
                                  !.faults   = IF mm.ret THEN @ ELSE @ + 1,
                                  !.explores = IF explo THEN @ + 1 ELSE @]
                    /\ UNCHANGED <<q_agent_x, q_agent_o, data_collector>>
            /\ UNCHANGED <<file, strategy_x, strategy_o, training, collect_data, train, call>>

Turn ==
    /\ pc = "loop"
    /\ \E r \in {get_move_by_strategy(board, current_player,
                                      IF current_player = "X" THEN strategy_x ELSE strategy_o,
                                      training, q_agent_x, q_agent_o)} :
          LoopBody(r)

-----------------------------------------------------------------------------
(* The object after __init__ *)

Constructed(sx, so) ==
    /\ board = EmptyBoard
    /\ current_player = "X"
    /\ strategy_x = sx
    /\ strategy_o = so
    /\ q_agent_x = EmptyTable
    /\ q_agent_o = EmptyTable
    /\ game_states = <<>>
    /\ current_game_moves = <<>>
    /\ data_collector = [games_data |-> <<>>, current_game_id |-> 0]
    /\ pc = "idle"
    /\ training = FALSE
    /\ collect_data = FALSE
    /\ winner = "None"
    /\ train = NoTrain
    /\ call = NoCall
    /\ file = NoFile
    /\ hist = HistInit

-----------------------------------------------------------------------------
(* Self-play games between any two strategies, without learning or recording *)

Init == \E sx \in Strategy, so \in Strategy : Constructed(sx, so)

PlayGame == play_self_game(FALSE, FALSE)

Next == PlayGame \/ Turn

Spec == Init /\ [][Next]_vars

-----------------------------------------------------------------------------
(* Claims about self-play games (Spec) *)

Count(b, m) == Cardinality({i \in Cells : b[i] = m})

LineOf(b, k, m) == \A j \in 1..3 : b[wins[k][j]] = m

HasLine(b, m) == \E k \in 1..Len(wins) : LineOf(b, k, m)

\* C3: in every state of a play_self_game game the turns taken so far alternate
\* X, O, X, ... starting with X, each turn placed exactly one mark, the player
\* to move next continues the alternation, and #X - #O is 0 or 1.
C3_StrictAlternation ==
    pc \in {"loop", "done"} =>
        /\ \A i \in 1..Len(hist.movers) :
              hist.movers[i] = (IF i % 2 = 1 THEN "X" ELSE "O")
        /\ Count(board, "X") + Count(board, "O") = Len(hist.movers)
        /\ Count(board, "X") - Count(board, "O") \in {0, 1}
        /\ pc = "loop" =>
              current_player = (IF Len(hist.movers) % 2 = 0 THEN "X" ELSE "O")

C3_Witness ==
    /\ pc = "loop"
    /\ hist.games = 2
    /\ Len(hist.movers) = 5
    /\ Count(board, "X") = 3
    /\ Count(board, "O") = 2

\* C5: the loop is left at the first terminal outcome: while the game runs
\* check_winner is None; once it has ended the returned value is check_winner
\* of the final board, the player to move is still the one who moved last, and
\* the board changes again only by the reset of the next play_self_game call.
C5_State ==
    /\ pc = "loop" => check_winner(board) = "None"
    /\ pc = "done" =>
          /\ winner \in {"X", "O", "Tie"}
          /\ winner = check_winner(board)
          /\ current_player = hist.movers[Len(hist.movers)]

C5_Step ==
    pc = "done" =>
        \/ UNCHANGED <<board, current_player, winner>>
        \/ /\ pc' = "loop"
           /\ board' = EmptyBoard
           /\ hist'.games = hist.games + 1

C5_FinishedAtOnce == []C5_State /\ [][C5_Step]_vars

C5_Witness ==
    /\ pc = "done"
    /\ winner = "X"
    /\ Len(hist.movers) = 5
    /\ Count(board, " ") = 4

\* C6: on every board of a game at most one mark holds a complete line, and
\* check_winner's answer does not depend on which complete line is met first:
\* it is the mark of every complete line, Tie only on a full board without a
\* line, None only on a board with an empty cell and without a line.
C6_OneWinner ==
    LET w == check_winner(board) IN
    /\ ~(HasLine(board, "X") /\ HasLine(board, "O"))
    /\ w \in {"X", "O", "Tie", "None"}
    /\ \A m \in Players : HasLine(board, m) <=> w = m
    /\ w = "Tie" <=> (~HasLine(board, "X") /\ ~HasLine(board, "O") /\ Count(board, " ") = 0)

C6_Witness ==
    /\ pc = "done"
    /\ \E k1, k2 \in 1..Len(wins) : k1 /= k2 /\ LineOf(board, k1, "X") /\ LineOf(board, k2, "X")
    /\ Count(board, " ") = 0

-----------------------------------------------------------------------------
(* Search against search, driven by direct calls (the loop of the test
   scripts: get the move, make_move, check_winner, switch), after an opening
   move of X on the empty board; and play_self_game with MINIMAX on both sides *)

OpeningMove ==
    /\ pc \in {"idle", "done"}
    /\ \E c \in Cells :
          /\ board' = make_move(reset_board.board, c, "X").board
          /\ hist' = [hist EXCEPT !.opening = c, !.movers = <<"X">>]
    /\ current_player' = SwitchPlayer(reset_board.current_player)
    /\ pc' = "driven"
    /\ winner' = "None"
    /\ UNCHANGED <<file, strategy_x, strategy_o, q_agent_x, q_agent_o, game_states,
                   current_game_moves, training, collect_data,
                   data_collector, train, call>>

SearchPly ==
    /\ pc = "driven"
    /\ \E r \in {get_best_move(board, current_player)} :
       \E w \in {check_winner(make_move(r.board, r.ret, current_player).board)} :
          /\ board' = make_move(r.board, r.ret, current_player).board
          /\ winner' = w
          /\ pc' = IF GameOver(w) THEN "done" ELSE "driven"
          /\ current_player' = IF GameOver(w) THEN current_player
                               ELSE SwitchPlayer(current_player)
          /\ hist' = [hist EXCEPT !.movers = Append(@, current_player)]
    /\ UNCHANGED <<file, strategy_x, strategy_o, q_agent_x, q_agent_o, game_states,
                   current_game_moves, training, collect_data,
                   data_collector, train, call>>

InitSearch == Constructed(MINIMAX, MINIMAX)

NextSearch == OpeningMove \/ SearchPly \/ PlayGame \/ Turn

SpecSearch == InitSearch /\ [][NextSearch]_vars

\* C1: a game in which both sides play get_best_move's cell, after any opening
\* cell of X or from the empty board in play_self_game, never shows a win on
\* the board and ends with check_winner = Tie.
C1_SearchTies ==
    /\ check_winner(board) \notin {"X", "O"}
    /\ pc = "done" => winner = "Tie"

C1_Witness ==
    /\ pc = "done"
    /\ winner = "Tie"
    /\ hist.opening = 7
    /\ Count(board, " ") = 0

-----------------------------------------------------------------------------
(* Strategies called directly on the boards of a game driven by direct calls
   (play_interactive_game, the test scripts): reset_board, then plies of any
   valid cell, get_move_by_strategy being asked between the plies *)

\* A table as load_q_table may install it: on the empty board and on the
\* board with X in the centre its largest values sit on cells that are not
\* available (9 is out of range, 4 is occupied).
Key(b) == get_state_key(b)

LoadedTable ==
    LET k0 == Key(EmptyBoard)
        k1 == Key([EmptyBoard EXCEPT ![4] = "X"])
    IN  (<<k0, 0>> :> <<-1, 2>>) @@ (<<k0, 4>> :> <<1, 2>>) @@ (<<k0, 8>> :> <<1, 2>>) @@
        (<<k0, 9>> :> <<1, 1>>) @@
        (<<k1, 4>> :> <<1, 1>>) @@ (<<k1, 0>> :> <<-1, 2>>) @@ (<<k1, 1>> :> <<1, 4>>)

reset_board_call ==
    /\ pc \in {"idle", "done"}
    /\ board' = reset_board.board
    /\ current_player' = reset_board.current_player
    /\ pc' = "driven"
    /\ winner' = "None"
    /\ call' = NoCall
    /\ hist' = [hist EXCEPT !.movers = <<>>, !.opening = -1]
    /\ UNCHANGED <<file, strategy_x, strategy_o, q_agent_x, q_agent_o, game_states,
                   current_game_moves, training, collect_data, data_collector, train>>

\* One ply of the driver: a valid cell (is_valid_move), make_move, check_winner,
\* switch players unless the game has ended
DriverPly ==
    /\ pc = "driven"
    /\ \E move \in Cells :
          /\ is_valid_move(board, move)
          /\ \E w \in {check_winner(make_move(board, move, current_player).board)} :
                /\ board' = make_move(board, move, current_player).board
                /\ winner' = w
                /\ pc' = IF GameOver(w) THEN "done" ELSE "driven"
                /\ current_player' = IF GameOver(w) THEN current_player
                                     ELSE SwitchPlayer(current_player)
    /\ call' = NoCall
    /\ hist' = [hist EXCEPT !.movers = Append(@, current_player)]
    /\ UNCHANGED <<file, strategy_x, strategy_o, q_agent_x, q_agent_o, game_states,
                   current_game_moves, training, collect_data, data_collector, train>>

\* get_move_by_strategy(current_player, strategy, is_training) called directly;
\* rets: every value the call can return (empty: the call raises)
get_move_by_strategy_call ==
    /\ pc = "driven"
    /\ call = NoCall
    /\ \E strategy \in Strategy, is_training \in BOOLEAN :
          /\ is_training => strategy = Q_LEARNING
          /\ \E r \in {get_move_by_strategy(board, current_player, strategy, is_training,
                                            q_agent_x, q_agent_o)} :
                /\ board' = r.board
                /\ call' = [op |-> "get_move_by_strategy", player |-> current_player,
                            strategy |-> strategy, training |-> is_training,
                            before |-> board, rets |-> r.ret]
    /\ UNCHANGED <<file, current_player, strategy_x, strategy_o, q_agent_x, q_agent_o,
                   game_states, current_game_moves, pc, training, collect_data, winner,
                   data_collector, train, hist>>

InitStrat ==
    /\ board = EmptyBoard
    /\ current_player = "X"
    /\ strategy_x = MINIMAX
    /\ strategy_o = MINIMAX
    /\ q_agent_x = LoadedTable
    /\ q_agent_o = LoadedTable
    /\ game_states = <<>>
    /\ current_game_moves = <<>>
    /\ data_collector = [games_data |-> <<>>, current_game_id |-> 0]
    /\ pc = "idle"
    /\ training = FALSE
    /\ collect_data = FALSE
    /\ winner = "None"
    /\ train = NoTrain
    /\ call = NoCall
    /\ file = NoFile
    /\ hist = HistInit

NextStrat == reset_board_call \/ DriverPly \/ get_move_by_strategy_call

SpecStrat == InitStrat /\ [][NextStrat]_vars

\* C2: on every non-terminal board of alternating play, for the player to move
\* and each strategy (Q_LEARNING with exploration on and off, on a table whose
\* largest values sit on unavailable cells), get_move_by_strategy returns, and
\* every value it can return is the index 0..8 of a cell that is empty.
C2_LegalMove ==
    call.op = "get_move_by_strategy" =>
        /\ call.rets /= {}
        /\ \A m \in call.rets : m \in Cells /\ call.before[m] = " "

C2_Witness ==
    /\ call.op = "get_move_by_strategy"
    /\ call.strategy = Q_LEARNING
    /\ ~call.training
    /\ call.player = "O"
    /\ call.before = [EmptyBoard EXCEPT ![4] = "X"]
    /\ call.rets = {1}

-----------------------------------------------------------------------------
(* The rules engine called directly on any board *)

\* An object whose board and tables were set to b, qx, qo
ObjectWith(b, qx, qo) ==
    /\ board = b
    /\ current_player = "X"
    /\ strategy_x = MINIMAX
    /\ strategy_o = MINIMAX
    /\ q_agent_x = qx
    /\ q_agent_o = qo
    /\ game_states = <<>>
    /\ current_game_moves = <<>>
    /\ data_collector = [games_data |-> <<>>, current_game_id |-> 0]
    /\ pc = "idle"
    /\ training = FALSE
    /\ collect_data = FALSE
    /\ winner = "None"
    /\ train = NoTrain
    /\ call = NoCall
    /\ file = NoFile
    /\ hist = HistInit

check_winner_call ==
    /\ call = NoCall
    /\ call' = [op |-> "check_winner", ret |-> check_winner(board)]
    /\ UNCHANGED <<file, board, current_player, strategy_x, strategy_o, q_agent_x, q_agent_o,
                   game_states, current_game_moves, pc, training, collect_data, winner,
                   data_collector, train, hist>>

InitRules == \E b \in [Cells -> Marks] : ObjectWith(b, EmptyTable, EmptyTable)

NextRules == check_winner_call

SpecRules == InitRules /\ [][NextRules]_vars

\* C4: check_winner returns a mark that fills one of the 8 lines whenever some
\* line is filled with a single mark; otherwise Tie when no cell is empty;
\* otherwise None. In particular a full board with a won line gives the mark.
C4_CheckWinner ==
    call.op = "check_winner" =>
        IF HasLine(board, "X") \/ HasLine(board, "O")
        THEN call.ret \in Players /\ HasLine(board, call.ret)
        ELSE IF Count(board, " ") = 0 THEN call.ret = "Tie"
        ELSE call.ret = "None"

C4_Witness ==
    /\ call.op = "check_winner"
    /\ Count(board, " ") = 0
    /\ Count(board, "X") = 5
    /\ Count(board, "O") = 4
    /\ LineOf(board, 8, "X")
    /\ call.ret = "X"

-----------------------------------------------------------------------------
(* QLearningAgent called directly on small tables *)

SampleKeys == <<Key(EmptyBoard), Key([EmptyBoard EXCEPT ![0] = "X"])>>

SamplePairs == {<<SampleKeys[1], 0>>, <<SampleKeys[1], 1>>, <<SampleKeys[2], 1>>}

SampleValues == {<<-1, 2>>, <<1, 1>>}

\* the tables that hold values of SampleValues on some of SamplePairs
SampleTables ==
    UNION {[D -> SampleValues] : D \in SUBSET SamplePairs}

update_q_value_call ==
    /\ call = NoCall
    /\ \E state \in Range(SampleKeys), action \in {0, 1}, reward \in {-1, 0, 1},
          next_state \in Range(SampleKeys),
          available_actions \in {<<>>, <<0>>, <<1>>, <<0, 1>>, <<1, 0, 2>>} :
          /\ q_agent_x' = update_q_value(q_agent_x, state, action, reward, next_state,
                                         available_actions)
          /\ call' = [op |-> "update_q_value", state |-> state, action |-> action,
                      reward |-> reward, next_state |-> next_state,
                      available_actions |-> available_actions, before |-> q_agent_x]
    /\ UNCHANGED <<file, board, current_player, strategy_x, strategy_o, q_agent_o,
                   game_states, current_game_moves, pc, training, collect_data, winner,
                   data_collector, train, hist>>

InitAgent == \E q \in SampleTables : ObjectWith(EmptyBoard, q, EmptyTable)

NextAgent == update_q_value_call

SpecAgent == InitAgent /\ [][NextAgent]_vars

\* The value a table reads at a pair, stated on the table itself
Reads(q, pair) == IF pair \in DOMAIN q THEN q[pair] ELSE <<0, 1>>

\* C9: after update_q_value(s, a, r, s', A') the table reads at (s, a) the value
\* Q(s,a) + 1/10 * (r + 9/10 * M - Q(s,a)) of the table before, M being the
\* largest Q(s',a') over a' in A' and 0 when A' is empty, i.e.
\* 100 * new = 90 * old + 10 * r + 9 * M; every other pair reads as before.
C9_UpdateRule ==
    call.op = "update_q_value" =>
        LET old == Reads(call.before, <<call.state, call.action>>)
            new == Reads(q_agent_x, <<call.state, call.action>>)
            N   == {Reads(call.before, <<call.next_state, a>>) :
                        a \in Range(call.available_actions)}
            M   == IF N = {} THEN <<0, 1>>
                   ELSE CHOOSE m \in N : \A n \in N : n[1] * m[2] <= m[1] * n[2]
        IN  /\ 100 * new[1] * old[2] * M[2]
                 = new[2] * (90 * old[1] * M[2] + 10 * call.reward * old[2] * M[2]
                             + 9 * M[1] * old[2])
            /\ new[2] > 0
            /\ \A pair \in (DOMAIN q_agent_x \cup DOMAIN call.before \cup
                            (Range(SampleKeys) \X (0..2))) \ {<<call.state, call.action>>} :
                  Reads(q_agent_x, pair) = Reads(call.before, pair)

C9_Witness ==
    /\ call.op = "update_q_value"
    /\ call.state = SampleKeys[2]
    /\ call.action = 1
    /\ call.reward = 1
    /\ call.next_state = SampleKeys[1]
    /\ call.available_actions = <<0, 1>>
    /\ call.before = (<<SampleKeys[1], 0>> :> <<-1, 2>>) @@ (<<SampleKeys[1], 1>> :> <<1, 1>>)
                     @@ (<<SampleKeys[2], 1>> :> <<-1, 2>>)
    /\ Reads(q_agent_x, <<SampleKeys[2], 1>>) = <<-13, 50>>

-----------------------------------------------------------------------------
(* train_q_learning_agent *)

MaxFaults == 1

TrainOpponents == {AGGRESSIVE, DEFENSIVE, HYBRID, Q_LEARNING}

train_q_learning_agent ==
    /\ pc = "idle"
    /\ \E episodes \in 1..MaxEpisodes, opponent_strategy \in TrainOpponents :
          /\ train' = [active |-> TRUE, original_x |-> strategy_x,
                       original_o |-> strategy_o, i |-> 0, episodes |-> episodes,
                       opponent_strategy |-> opponent_strategy,
                       results |-> [w \in {"X", "O", "Tie"} |-> 0]]
          /\ strategy_x' = Q_LEARNING
          /\ strategy_o' = opponent_strategy
    /\ pc' = "train"
    /\ UNCHANGED <<file, board, current_player, q_agent_x, q_agent_o, game_states,
                   current_game_moves, training, collect_data, winner, data_collector,
                   call, hist>>

\* for i in range(episodes): winner = self.play_self_game(training=True)
TrainEpisode ==
    /\ pc = "train"
    /\ train.active
    /\ train.i < train.episodes
    /\ PlaySelfGameEnter(TRUE, FALSE)
    /\ UNCHANGED train

\* results[winner] += 1
TrainEpisodeEnd ==
    /\ pc = "done"
    /\ train.active
    /\ train' = [train EXCEPT !.i = @ + 1, !.results[winner] = @ + 1]
    /\ pc' = "train"
    /\ UNCHANGED <<file, board, current_player, strategy_x, strategy_o, q_agent_x, q_agent_o,
                   game_states, current_game_moves, training, collect_data, winner,
                   data_collector, call, hist>>

\* Restore original strategies
TrainReturn ==
    /\ pc = "train"
    /\ train.active
    /\ train.i = train.episodes
    /\ strategy_x' = train.original_x
    /\ strategy_o' = train.original_o
    /\ train' = [train EXCEPT !.active = FALSE]
    /\ pc' = "trained"
    /\ UNCHANGED <<file, board, current_player, q_agent_x, q_agent_o, game_states,
                   current_game_moves, training, collect_data, winner, data_collector,
                   call, hist>>

InitTrain == Constructed(MINIMAX, MINIMAX)

NextTrain == train_q_learning_agent \/ TrainEpisode \/ Turn \/ TrainEpisodeEnd \/ TrainReturn

SpecTrain == InitTrain /\ [][NextTrain]_vars

\* The recorded entries of player p in a trajectory, as (state, action) pairs
EntriesOf(gs, p) == {<<gs[i][1], gs[i][2]>> : i \in {j \in 1..Len(gs) : gs[j][3] = p}}

EmptyCellsOfKey(k) == {j \in Cells : k[j + 1] = " "}

TrainingGameOver == pc = "done" /\ training /\ Learning

\* C8: after a training game with outcome W, update_q_learning has made exactly
\* one update_q_value call per recorded entry, in play order, on the acting
\* player's agent at the entry's (state, action), with reward +1 if the acting
\* player is W, -1 if the other player is W, 0 on a tie, and with the next
\* entry's state and its empty cells as next state and next actions (the
\* entry's own state and no actions for the last entry).
C8_CreditAssignment ==
    TrainingGameOver =>
        /\ Len(hist.updates) = Len(game_states)
        /\ \A i \in 1..Len(game_states) :
              LET u == hist.updates[i]
                  e == game_states[i]
              IN  /\ u.agent = e[3]
                  /\ u.state = e[1]
                  /\ u.action = e[2]
                  /\ u.reward = (IF winner = "Tie" THEN 0
                                 ELSE IF winner = e[3] THEN 1 ELSE -1)
                  /\ IF i < Len(game_states)
                     THEN /\ u.next_state = game_states[i + 1][1]
                          /\ Range(u.next_available)
                               = EmptyCellsOfKey(game_states[i + 1][1])
                     ELSE /\ u.next_state = e[1]
                          /\ u.next_available = <<>>

-----------------------------------------------------------------------------
(* play_self_game with a strategy that may hand the loop any integer *)

\* One iteration of the loop in which the strategy call returned move, legal
\* or not (a cell out of range or occupied at most MaxFaults times)
FaultyTurn ==
    /\ pc = "loop"
    /\ \E move \in -1..9 :
          /\ ~is_valid_move(board, move) => hist.faults < MaxFaults
          /\ LoopBody([ret |-> {move}, board |-> board])

InitFault == Constructed(RANDOM, RANDOM)

NextFault == PlayGame \/ FaultyTurn

SpecFault == InitFault /\ [][NextFault]_vars

\* C7: when the strategy's move is out of range or occupied, play_self_game
\* stops with a failure: the loop does not go on (nor return an outcome) after
\* an iteration in which make_move rejected the move.
C7_FailsFast == hist.rejected => pc \notin {"loop", "done"}

-----------------------------------------------------------------------------
(* choose_action called directly: any sample table, either sample state, the
   available cells of that state's board or a list in another order *)

ActionLists ==
    {get_available_moves(EmptyBoard),
     get_available_moves([EmptyBoard EXCEPT ![0] = "X"]),
     <<0, 1>>, <<1, 0>>, <<1, 0, 2>>, <<2, 1, 0>>, <<2>>}

choose_action_call ==
    /\ call = NoCall
    /\ \E state \in Range(SampleKeys), available_actions \in ActionLists,
          is_training \in BOOLEAN :
          \E r \in {choose_action(q_agent_x, state, available_actions, is_training)} :
             call' = [op |-> "choose_action", state |-> state,
                      available_actions |-> available_actions,
                      training |-> is_training, rets |-> r.ret]
    /\ UNCHANGED <<file, board, current_player, strategy_x, strategy_o, q_agent_x, q_agent_o,
                   game_states, current_game_moves, pc, training, collect_data, winner,
                   data_collector, train, hist>>

NextChoose == choose_action_call

SpecChoose == InitAgent /\ [][NextChoose]_vars

\* position of the first occurrence of a in the list
IndexOf(seq, a) == CHOOSE i \in 1..Len(seq) : seq[i] = a /\ \A j \in 1..(i - 1) : seq[j] /= a

\* C11: with training = False choose_action has exactly one possible result;
\* it is one of the available actions, no available action has a larger table
\* value, and every action listed before it has a strictly smaller value (the
\* first of the maximal ones in the caller's order; for the ascending list of
\* get_available_moves the lowest cell index).
C11_GreedyFirstMax ==
    (call.op = "choose_action" /\ ~call.training) =>
        /\ Cardinality(call.rets) = 1
        /\ \A g \in call.rets :
              /\ g \in Range(call.available_actions)
              /\ \A a \in Range(call.available_actions) :
                    ~RLess(Reads(q_agent_x, <<call.state, g>>),
                           Reads(q_agent_x, <<call.state, a>>))
              /\ \A j \in 1..(IndexOf(call.available_actions, g) - 1) :
                    RLess(Reads(q_agent_x, <<call.state, call.available_actions[j]>>),
                          Reads(q_agent_x, <<call.state, g>>))
              /\ call.available_actions = get_available_moves(EmptyBoard) =>
                    \A a \in 0..(g - 1) :
                        RLess(Reads(q_agent_x, <<call.state, a>>),
                              Reads(q_agent_x, <<call.state, g>>))

\* a tie of the two largest values, the later cell listed first
C11_Witness ==
    /\ call.op = "choose_action"
    /\ ~call.training
    /\ call.state = SampleKeys[1]
    /\ call.available_actions = <<1, 0, 2>>
    /\ Reads(q_agent_x, <<SampleKeys[1], 0>>) = <<1, 1>>
    /\ Reads(q_agent_x, <<SampleKeys[1], 1>>) = <<1, 1>>
    /\ call.rets = {1}

-----------------------------------------------------------------------------
(* get_best_move called directly, once or twice in a row, for the player to
   move on the boards of a game driven by direct calls *)

get_best_move_call ==
    /\ pc = "driven"
    /\ call.op \in {"none", "get_best_move"}
    /\ call.op = "get_best_move" => call.calls < 2
    /\ \E r \in {get_best_move(board, current_player)} :
          /\ board' = r.board
          /\ call' = [op |-> "get_best_move", player |-> current_player,
                      before |-> board, ret |-> r.ret,
                      scores |-> first_level_scores(board, current_player),
                      calls |-> IF call.op = "none" THEN 1 ELSE call.calls + 1,
                      first |-> IF call.op = "none" THEN r.ret ELSE call.first]
    /\ UNCHANGED <<file, current_player, strategy_x, strategy_o, q_agent_x, q_agent_o,
                   game_states, current_game_moves, pc, training, collect_data, winner,
                   data_collector, train, hist>>

NextBest == reset_board_call \/ DriverPly \/ get_best_move_call

SpecBest == InitSearch /\ [][NextBest]_vars

\* The value of a position by exhaustive search, without pruning: the terminal
\* scores of minimax, else the largest (X to move) or smallest (O to move)
\* value of the positions one ply on.
RECURSIVE ExactScore(_, _, _)
ExactScore(b, depth, x_to_move) ==
    LET w == check_winner(b) IN
    IF w = "X" THEN 10 - depth
    ELSE IF w = "O" THEN depth - 10
    ELSE IF w = "Tie" THEN 0
    ELSE LET S == {ExactScore([b EXCEPT ![m] = IF x_to_move THEN "X" ELSE "O"],
                              depth + 1, ~x_to_move) : m \in {i \in Cells : b[i] = " "}}
         IN  IF x_to_move THEN CHOOSE x \in S : \A y \in S : y <= x
             ELSE CHOOSE x \in S : \A y \in S : x <= y

\* the exact score of playing cell m for player on board b
MoveScore(b, player, m) == ExactScore([b EXCEPT ![m] = player], 0, player = "O")

\* C12: get_best_move(player) on a non-terminal board returns an empty cell
\* whose exact score no empty cell beats (larger for X, smaller for O) and
\* which every lower-index empty cell fails to equal; it leaves the board as
\* it found it, and a second call on that board returns the same cell.
C12_BestMoveLowestIndex ==
    call.op = "get_best_move" =>
        /\ board = call.before
        /\ call.ret = call.first
        /\ call.calls = 1 =>
              \E sc \in {[m \in {i \in Cells : board[i] = " "} |->
                              MoveScore(board, call.player, m)]} :
                 /\ call.ret \in DOMAIN sc
                 /\ \A m \in DOMAIN sc :
                       IF call.player = "X" THEN sc[m] <= sc[call.ret]
                       ELSE sc[call.ret] <= sc[m]
                 /\ \A m \in DOMAIN sc : m < call.ret => sc[m] /= sc[call.ret]

\* O to move after X took the corner 0: the centre is the only cell that does
\* not lose, and the second call answers as the first
C12_Witness ==
    /\ call.op = "get_best_move"
    /\ call.calls = 2
    /\ call.player = "O"
    /\ call.before = [EmptyBoard EXCEPT ![0] = "X"]
    /\ call.ret = 4

-----------------------------------------------------------------------------
(* The heuristic strategies called directly on any board, for either player *)

get_aggressive_move_call ==
    /\ call = NoCall
    /\ \E player \in Players :
          \E r \in {get_aggressive_move(board, player)} :
             /\ board' = r.board
             /\ call' = [op |-> "get_aggressive_move", player |-> player,
                         before |-> board, rets |-> r.ret]
    /\ UNCHANGED <<file, current_player, strategy_x, strategy_o, q_agent_x, q_agent_o,
                   game_states, current_game_moves, pc, training, collect_data, winner,
                   data_collector, train, hist>>

get_defensive_move_call ==
    /\ call = NoCall
    /\ \E player \in Players :
          \E r \in {get_defensive_move(board, player)} :
             /\ board' = r.board
             /\ call' = [op |-> "get_defensive_move", player |-> player,
                         before |-> board, rets |-> r.ret]
    /\ UNCHANGED <<file, current_player, strategy_x, strategy_o, q_agent_x, q_agent_o,
                   game_states, current_game_moves, pc, training, collect_data, winner,
                   data_collector, train, hist>>

NextHeur == get_aggressive_move_call \/ get_defensive_move_call

SpecHeur == InitRules /\ [][NextHeur]_vars

\* the empty cells of b that complete a line of mark m
WinningCells(b, m) ==
    {c \in Cells : b[c] = " " /\ HasLine([b EXCEPT ![c] = m], m)}

LowestOf(S) == CHOOSE c \in S : \A d \in S : c <= d

-----------------------------------------------------------------------------
(* Saving and loading value tables: agent X saves, agent O loads, and the
   file may be replaced from outside the program *)

\* tables with actions of one and two digits and below zero
PersistTables ==
    SampleTables \cup
    {(<<SampleKeys[1], 12>> :> <<-13, 50>>) @@ (<<SampleKeys[1], -3>> :> <<3, 10>>) @@
     (<<SampleKeys[2], 8>> :> <<0, 1>>)}

\* what the loading agent may hold before the call
OldTables == {EmptyTable, (<<SampleKeys[2], 5>> :> <<7, 10>>) @@ (<<SampleKeys[1], 0>> :> <<2, 1>>)}

\* files that are there but are no saved table: text that is no JSON, a JSON
\* array, and an object with a member name that is no integer
CorruptFiles ==
    {[exists |-> TRUE, json |-> FALSE, object |-> FALSE, entries |-> <<>>],
     [exists |-> TRUE, json |-> TRUE, object |-> FALSE, entries |-> <<>>],
     [exists |-> TRUE, json |-> TRUE, object |-> TRUE,
      entries |-> <<[state |-> SampleKeys[1], action |-> <<"1">>, value |-> float_repr(<<1, 2>>)],
                    [state |-> SampleKeys[1], action |-> <<"x">>, value |-> float_repr(<<1, 1>>)]>>]}

file_written_outside ==
    /\ call = NoCall
    /\ file' \in CorruptFiles
    /\ call' = [op |-> "write_file"]
    /\ UNCHANGED <<board, current_player, strategy_x, strategy_o, q_agent_x, q_agent_o,
                   game_states, current_game_moves, pc, training, collect_data, winner,
                   data_collector, train, hist>>

\* self.q_agent_x.save_q_table(filename)
save_q_table_call ==
    /\ call = NoCall
    /\ file' = save_q_table(q_agent_x)
    /\ call' = [op |-> "save_q_table", saved |-> q_agent_x]
    /\ UNCHANGED <<board, current_player, strategy_x, strategy_o, q_agent_x, q_agent_o,
                   game_states, current_game_moves, pc, training, collect_data, winner,
                   data_collector, train, hist>>

\* self.q_agent_o.load_q_table(filename)
load_q_table_call ==
    /\ call.op \in {"none", "save_q_table", "write_file"}
    /\ \E r \in {load_q_table(q_agent_o, file)} :
          /\ q_agent_o' = r.q_table
          /\ call' = [op |-> "load_q_table", before |-> q_agent_o, raised |-> r.raised,
                      from_save |-> call.op = "save_q_table",
                      saved |-> IF call.op = "save_q_table" THEN call.saved ELSE EmptyTable]
    /\ UNCHANGED <<file, board, current_player, strategy_x, strategy_o, q_agent_x,
                   game_states, current_game_moves, pc, training, collect_data, winner,
                   data_collector, train, hist>>

InitPersist == \E qx \in PersistTables, qo \in OldTables : ObjectWith(EmptyBoard, qx, qo)

NextPersist == file_written_outside \/ save_q_table_call \/ load_q_table_call

SpecPersist == InitPersist /\ [][NextPersist]_vars

\* the pairs at which any of the tables of a load call was written
PairsOfCall == DOMAIN q_agent_o \cup DOMAIN call.before \cup DOMAIN call.saved

\* C15: load_q_table on the file written by save_q_table raises nothing and
\* leaves the loading agent with a table that reads, at every (state, integer
\* action) pair, the value the saved table reads there - in particular 0.0
\* at every pair the saved table did not hold, whatever the loading agent held.
C15_RoundTrip ==
    (call.op = "load_q_table" /\ call.from_save) =>
        /\ call.raised = "None"
        /\ \A pair \in PairsOfCall : Reads(q_agent_o, pair) = Reads(call.saved, pair)

C15_Witness ==
    /\ call.op = "load_q_table"
    /\ call.from_save
    /\ call.before /= EmptyTable
    /\ Reads(call.saved, <<SampleKeys[1], 12>>) = <<-13, 50>>
    /\ Reads(q_agent_o, <<SampleKeys[1], 12>>) = <<-13, 50>>
    /\ Reads(q_agent_o, <<SampleKeys[1], -3>>) = <<3, 10>>
    /\ Reads(q_agent_o, <<SampleKeys[2], 5>>) = <<0, 1>>

\* C16: after load_q_table on a file that does not exist no exception reaches
\* the caller and the agent's table reads 0.0 at every pair, whatever it held
\* before the call.
C16_MissingGivesEmpty ==
    (call.op = "load_q_table" /\ ~file.exists) =>
        /\ call.raised = "None"
        /\ \A pair \in PairsOfCall : Reads(q_agent_o, pair) = <<0, 1>>

\* C17: after load_q_table on a file that exists but is no saved table no
\* exception reaches the caller and the agent's table reads 0.0 at every pair.
C17_CorruptGivesEmpty ==
    (call.op = "load_q_table" /\ file \in CorruptFiles) =>
        /\ call.raised = "None"
        /\ \A pair \in PairsOfCall : Reads(q_agent_o, pair) = <<0, 1>>

-----------------------------------------------------------------------------
(* Two learning agents: play_self_game with Q_LEARNING on both sides, with
   training on (the tables are written) or off (the tables are only read) *)

PlayLearningGame == \E tr \in BOOLEAN : play_self_game(tr, FALSE)

InitTables == Constructed(Q_LEARNING, Q_LEARNING)

NextTables == PlayLearningGame \/ Turn

SpecTables == InitTables /\ [][NextTables]_vars

\* the pairs at which a table differs between the two states of a step
ChangedPairs(q, q2) ==
    {pair \in DOMAIN q \cup DOMAIN q2 : Reads(q, pair) /= Reads(q2, pair)}

\* C18: the two agents' tables are separate. In every step of a game:
\* (selection) with training off the cell played by a learning player is the
\* greedy choice on that player's own table;
\* (updates) the tables change only in the step that ends a training game,
\* X's table only at recorded entries of X and O's only at entries of O, and
\* each new table is what update_q_learning computes from that agent's own
\* table alone, whatever the other agent's table holds.
C18_Step ==
    pc = "loop" =>
        /\ ~training =>
              \E c \in Cells :
                 /\ board' = [board EXCEPT ![c] = current_player]
                 /\ c = choose_action(IF current_player = "X" THEN q_agent_x ELSE q_agent_o,
                                      get_state_key(board), get_available_moves(board),
                                      FALSE).greedy
        /\ ChangedPairs(q_agent_x, q_agent_x') \subseteq EntriesOf(game_states', "X")
        /\ ChangedPairs(q_agent_o, q_agent_o') \subseteq EntriesOf(game_states', "O")
        /\ (ChangedPairs(q_agent_x, q_agent_x') \cup ChangedPairs(q_agent_o, q_agent_o')) /= {}
              => (pc' = "done" /\ training)
        /\ (pc' = "done" /\ training) =>
              /\ q_agent_x' = update_q_learning(winner', game_states', q_agent_x,
                                                EmptyTable).q_agent_x
              /\ q_agent_o' = update_q_learning(winner', game_states', EmptyTable,
                                                q_agent_o).q_agent_o

C18_TablesNotShared == [][C18_Step]_vars

\* second game, training off, after a first training game that X won with
\* the cells 0, 2, 4, 6: O, reading its own table, avoids cell 1
C18_Witness ==
    /\ pc = "loop"
    /\ ~training
    /\ hist.games = 2
    /\ Reads(q_agent_x, <<Key(EmptyBoard), 0>>) = <<1, 10>>
    /\ Reads(q_agent_o, <<Key([EmptyBoard EXCEPT ![0] = "X"]), 1>>) = <<-1, 10>>
    /\ board = [EmptyBoard EXCEPT ![0] = "X", ![2] = "O"]

-----------------------------------------------------------------------------
(* make_move called directly on any board with any position near the range *)

Positions == -2..10

make_move_call ==
    /\ call = NoCall
    /\ \E position \in Positions, player \in Players :
          \E mm \in {make_move(board, position, player)} :
             /\ board' = mm.board
             /\ call' = [op |-> "make_move", position |-> position, player |-> player,
                         before |-> board, current_player |-> current_player,
                         ret |-> mm.ret]
    /\ UNCHANGED <<file, current_player, strategy_x, strategy_o, q_agent_x, q_agent_o,
                   game_states, current_game_moves, pc, training, collect_data, winner,
                   data_collector, train, hist>>

NextMove == make_move_call

SpecMove == InitRules /\ [][NextMove]_vars

\* C19: make_move(position, player) returns True exactly when 0 <= position < 9
\* and the cell is empty; then the board is the old one with that one cell set
\* to the player's mark; otherwise (position negative, beyond 8, or the cell
\* occupied) every cell is as before. The board changes only in the first
\* case, and current_player is never touched.
C19_MakeMove ==
    call.op = "make_move" =>
        LET legal == call.position \in Cells /\ call.before[call.position] = " " IN
        /\ call.ret = legal
        /\ legal => /\ board[call.position] = call.player
                    /\ \A c \in Cells \ {call.position} : board[c] = call.before[c]
        /\ ~legal => \A c \in Cells : board[c] = call.before[c]
        /\ (board /= call.before) <=> legal
        /\ current_player = call.current_player

\* an occupied cell is refused
C19_Witness ==
    /\ call.op = "make_move"
    /\ call.position = 4
    /\ call.player = "X"
    /\ call.before[4] = "O"
    /\ ~call.ret
    /\ board = call.before
    /\ Count(board, " ") = 5

-----------------------------------------------------------------------------
(* The scoring convention of the search, seen in the scores get_best_move
   computes for the first-level moves (SpecBest) *)

\* the plies played from board b to board t
PliesBetween(b, t) == Cardinality({c \in Cells : b[c] /= t[c]})

\* the score of the position after move, when terminal positions score
\* 10 - depth / depth - 10 / 0 with depth = (plies played since call.before)
\* - offset
ScoreWithOffset(move, offset) ==
    ExactScore([call.before EXCEPT ![move] = call.player], 1 - offset, call.player = "O")

\* C20 as claimed: depth counts the plies played since the board B that
\* get_best_move was called on, so that a win completed by the first move from
\* B scores 9 for X and -9 for O.
C20_DepthFromRoot ==
    (call.op = "get_best_move" /\ call.calls = 1) =>
        \A move \in DOMAIN call.scores : call.scores[move] = ScoreWithOffset(move, 0)

\* C20 as amended: depth counts the plies played after get_best_move's own
\* first-level move, one less than the plies played since B: the score of
\* every first-level move is the exhaustive-search value under terminal scores
\* 10 - (k - 1) for X, (k - 1) - 10 for O and 0 for a tie at k plies from B;
\* a position that the first move ends scores 10, -10 or 0.
C20_DepthFromFirstPly ==
    (call.op = "get_best_move" /\ call.calls = 1) =>
        \A move \in DOMAIN call.scores :
            LET t == [call.before EXCEPT ![move] = call.player]
                w == check_winner(t)
            IN  /\ call.scores[move] = ScoreWithOffset(move, 1)
                /\ PliesBetween(call.before, t) = 1
                /\ w = "X" => call.scores[move] = 10
                /\ w = "O" => call.scores[move] = -10
                /\ w = "Tie" => call.scores[move] = 0

\* X completes the top row with the first move (10); the other moves let O
\* complete the middle row one ply later (-9)
C20_Witness ==
    /\ call.op = "get_best_move"
    /\ call.calls = 1
    /\ call.player = "X"
    /\ call.before = [EmptyBoard EXCEPT ![0] = "X", ![1] = "X", ![3] = "O", ![4] = "O"]
    /\ call.scores[2] = 10
    /\ call.scores[6] = -9
    /\ call.ret = 2

-----------------------------------------------------------------------------
(* minimax called directly with the default window, for either side to move,
   on the boards of a game driven by direct calls (finished ones included) *)

minimax_call ==
    /\ pc \in {"driven", "done"}
    /\ call = NoCall
    /\ \E is_maximizing \in BOOLEAN :
          \E r \in {minimax(board, 0, is_maximizing, -Inf, Inf)} :
             /\ board' = r.board
             /\ call' = [op |-> "minimax", depth |-> 0, is_maximizing |-> is_maximizing,
                         before |-> board, ret |-> r.ret]
    /\ UNCHANGED <<file, current_player, strategy_x, strategy_o, q_agent_x, q_agent_o,
                   game_states, current_game_moves, pc, training, collect_data, winner,
                   data_collector, train, hist>>

NextPrune == reset_board_call \/ DriverPly \/ minimax_call

SpecPrune == InitSearch /\ [][NextPrune]_vars

\* C21: on every board of alternating play and for either side to move,
\* minimax(0, is_maximizing) with alpha = -inf and beta = +inf returns the value
\* of the exhaustive search without cut-off under the same terminal scores.
C21_PruningExact ==
    call.op = "minimax" =>
        call.ret = ExactScore(call.before, call.depth, call.is_maximizing)

\* X to move after X took a corner and O the edge next to it: X wins by force,
\* and the value says so
C21_Witness ==
    /\ call.op = "minimax"
    /\ call.is_maximizing
    /\ call.before = [EmptyBoard EXCEPT ![0] = "X", ![1] = "O"]
    /\ call.ret > 0

-----------------------------------------------------------------------------
(* The quickest win (SpecBest) *)

\* C22: on every non-terminal board of alternating play on which the player to
\* move has an empty cell that completes a line, get_best_move for that player
\* returns such a cell.
C22_QuickestWin ==
    (call.op = "get_best_move" /\ WinningCells(call.before, call.player) /= {}) =>
        call.ret \in WinningCells(call.before, call.player)

\* X can win at once at 8 and by force, two plies later, with the lower cell 3
C22_Witness ==
    /\ call.op = "get_best_move"
    /\ call.player = "X"
    /\ call.before = [EmptyBoard EXCEPT ![0] = "X", ![4] = "X", ![1] = "O", ![2] = "O"]
    /\ WinningCells(call.before, "X") = {8}
    /\ call.scores[3] = 8
    /\ call.scores[8] = 10
    /\ call.ret = 8

-----------------------------------------------------------------------------
(* The fallback orders of the heuristic strategies (SpecHeur) *)

Corners == {0, 2, 6, 8}

Edges == {1, 3, 5, 7}

EmptyIn(b, S) == {c \in S : b[c] = " "}

\* C23: on a board with an empty cell on which no empty cell completes a line
\* of the acting player, get_aggressive_move returns; it can only return 4 if
\* the centre is empty; else only empty corners (and each of them) if a corner
\* is empty; else only the remaining empty cells, which are edges. An edge is
\* possible only with the centre and the four corners occupied.
C23_AggressiveFallback ==
    (/\ call.op = "get_aggressive_move"
     /\ EmptyIn(call.before, Cells) /= {}
     /\ WinningCells(call.before, call.player) = {}) =>
        /\ call.rets = (IF call.before[4] = " " THEN {4}
                        ELSE IF EmptyIn(call.before, Corners) /= {}
                             THEN EmptyIn(call.before, Corners)
                        ELSE EmptyIn(call.before, Edges))
        /\ call.rets /= {}
        /\ (call.rets \cap Edges /= {}) =>
              (call.before[4] /= " " /\ EmptyIn(call.before, Corners) = {})

\* centre and corners taken, no win at hand for X: any of the edges 3, 5, 7
C23_Witness ==
    /\ call.op = "get_aggressive_move"
    /\ call.player = "X"
    /\ call.before = [c \in Cells |-> IF c \in {0, 2, 4} THEN "X"
                                      ELSE IF c \in {1, 6, 8} THEN "O" ELSE " "]
    /\ WinningCells(call.before, "X") = {}
    /\ call.rets = {3, 5, 7}

\* C24: on a board with an empty cell on which no empty cell completes a line
\* of the opponent, get_defensive_move returns; it can only return the
\* lowest-index cell that completes a line of the acting player if there is
\* one; else only 4 if the centre is empty; else only empty edges (and each of
\* them) if an edge is empty; else only the remaining empty cells, which are
\* corners. A corner that is not the acting player's winning cell is possible
\* only with the centre and the four edges occupied.
C24_DefensiveFallback ==
    (/\ call.op = "get_defensive_move"
     /\ EmptyIn(call.before, Cells) /= {}
     /\ WinningCells(call.before, SwitchPlayer(call.player)) = {}) =>
        LET own == WinningCells(call.before, call.player) IN
        /\ call.rets = (IF own /= {} THEN {LowestOf(own)}
                        ELSE IF call.before[4] = " " THEN {4}
                        ELSE IF EmptyIn(call.before, Edges) /= {}
                             THEN EmptyIn(call.before, Edges)
                        ELSE EmptyIn(call.before, Corners))
        /\ call.rets /= {}
        /\ (call.rets \cap Corners /= {} /\ own = {}) =>
              (call.before[4] /= " " /\ EmptyIn(call.before, Edges) = {})

\* centre and edges taken, nothing to block or to win: any of the corners
C24_Witness ==
    /\ call.op = "get_defensive_move"
    /\ call.player = "X"
    /\ call.before = [c \in Cells |-> IF c \in {3, 4} THEN "X"
                                      ELSE IF c \in {1, 5, 7} THEN "O" ELSE " "]
    /\ WinningCells(call.before, "X") = {}
    /\ WinningCells(call.before, "O") = {}
    /\ call.rets = {0, 2, 6, 8}

-----------------------------------------------------------------------------
(* The hybrid strategy asked for the player to move in a game (SpecStrat) *)

\* C25: asked at ply p of a game (p - 1 marks on the board), the hybrid
\* strategy returns a cell the aggressive strategy can return on that board
\* when 7, 8 or 9 cells are empty, which is at plies 1 to 3, and exactly
\* get_best_move's cell when 6 or fewer are empty, which is from ply 4 on.
C25_HybridThreshold ==
    (call.op = "get_move_by_strategy" /\ call.strategy = HYBRID) =>
        LET n   == Count(call.before, " ")
            ply == Len(hist.movers) + 1
        IN  /\ ply = 10 - n
            /\ n \in {7, 8, 9} <=> ply \in 1..3
            /\ n \in {7, 8, 9} =>
                  /\ call.rets /= {}
                  /\ call.rets \subseteq get_aggressive_move(call.before, call.player).ret
            /\ n <= 6 =>
                  call.rets = {get_best_move(call.before, call.player).ret}

\* ply 4, X on two opposite corners and O in the centre: the search answers
\* with the edge 1, where the heuristic would take a corner
C25_Witness ==
    /\ call.op = "get_move_by_strategy"
    /\ call.strategy = HYBRID
    /\ call.player = "O"
    /\ Len(hist.movers) = 3
    /\ call.before = [EmptyBoard EXCEPT ![0] = "X", ![4] = "O", ![8] = "X"]
    /\ call.rets = {1}
    /\ get_aggressive_move(call.before, "O").ret = {2, 6}

-----------------------------------------------------------------------------
(* Recorded games: play_self_game with training and collect_data on or off,
   for pairings with and without a learning side *)

RecordPairings == {<<Q_LEARNING, Q_LEARNING>>, <<AGGRESSIVE, AGGRESSIVE>>}

PlayRecordedGame == \E tr \in BOOLEAN, cd \in BOOLEAN : play_self_game(tr, cd)

InitRecord == \E p \in RecordPairings : Constructed(p[1], p[2])

NextRecord == PlayRecordedGame \/ Turn

SpecRecord == InitRecord /\ [][NextRecord]_vars

\* a recorded list L of (state, cell, player) that tells the game that led to
\* board b, ply by ply
TellsGame(L, b) ==
    /\ Len(L) = Count(b, "X") + Count(b, "O")
    /\ Len(L) = Len(hist.movers)
    /\ Len(L) > 0
    /\ L[1][1] = Key(EmptyBoard)
    /\ \A k \in 1..Len(L) :
          /\ L[k][3] = (IF k % 2 = 1 THEN "X" ELSE "O")
          /\ L[k][3] = hist.movers[k]
          /\ L[k][2] \in Cells
          /\ L[k][1][L[k][2] + 1] = " "
          /\ LET after == [L[k][1] EXCEPT ![L[k][2] + 1] = L[k][3]]
             IN  IF k < Len(L) THEN L[k + 1][1] = after ELSE Key(b) = after

\* C26: at the end of a game, the list recorded for learning (training with
\* a Q_LEARNING side) and the list recorded for the data set (collect_data)
\* each hold one entry per ply in play order: the board before the ply, the
\* cell played, empty in that board, and the acting player, X first and
\* alternating; each next state is the state with the cell set to the player.
\* The GameRecord emitted holds that list, and its game_length is the number
\* of marks on the final board.
C26_TrajectoryShape ==
    pc = "done" =>
        /\ Learning => TellsGame(game_states, board)
        /\ collect_data =>
              /\ TellsGame(current_game_moves, board)
              /\ data_collector.games_data /= <<>>
              /\ LET rec == data_collector.games_data[Len(data_collector.games_data)]
                 IN  /\ rec.moves = current_game_moves
                     /\ rec.game_length = Count(board, "X") + Count(board, "O")
                     /\ rec.winner = winner

\* a learning game of seven plies, recorded both ways
C26_Witness ==
    /\ pc = "done"
    /\ Learning
    /\ collect_data
    /\ Len(game_states) = 7
    /\ game_states = current_game_moves
    /\ data_collector.games_data[Len(data_collector.games_data)].game_length = 7
    /\ Count(board, " ") = 2

-----------------------------------------------------------------------------
(* Every strategy evaluator called directly on the boards of a game driven by
   direct calls *)

get_hybrid_move_call ==
    /\ pc = "driven"
    /\ call = NoCall
    /\ \E r \in {get_hybrid_move(board, current_player)} :
          /\ board' = r.board
          /\ call' = [op |-> "get_hybrid_move", player |-> current_player,
                      before |-> board, rets |-> r.ret]
    /\ UNCHANGED <<file, current_player, strategy_x, strategy_o, q_agent_x, q_agent_o,
                   game_states, current_game_moves, pc, training, collect_data, winner,
                   data_collector, train, hist>>

NextFrame ==
    \/ reset_board_call
    \/ DriverPly
    \/ minimax_call
    \/ get_best_move_call
    \/ get_aggressive_move_call
    \/ get_defensive_move_call
    \/ get_hybrid_move_call
    \/ get_move_by_strategy_call

SpecFrame == InitSearch /\ [][NextFrame]_vars

StrategyOps ==
    {"minimax", "get_best_move", "get_aggressive_move", "get_defensive_move",
     "get_hybrid_move", "get_move_by_strategy"}

\* C27: a step that is a call of minimax, get_best_move, get_aggressive_move,
\* get_defensive_move, get_hybrid_move or get_move_by_strategy leaves every
\* cell of the board and current_player as they were.
C27_Step ==
    (call' /= call /\ call'.op \in StrategyOps) =>
        /\ \A c \in Cells : board'[c] = board[c]
        /\ current_player' = current_player
        /\ call'.before = board

C27_EvaluationKeepsState == [][C27_Step]_vars

\* the defensive strategy found the cell to block at once and returned early
C27_Witness ==
    /\ call.op = "get_defensive_move"
    /\ call.player = "X"
    /\ call.before = [EmptyBoard EXCEPT ![0] = "X", ![1] = "X", ![6] = "O", ![7] = "O"]
    /\ call.rets = {8}
    /\ board = call.before
    /\ current_player = "X"

-----------------------------------------------------------------------------
(* The look-ahead term of every update of update_q_learning *)

\* the two tables when update_q_learning's loop reaches entry n of gs, from
\* the tables qx, qo it started with (n = Len(gs) + 1: when it returns)
RECURSIVE TablesBefore(_, _, _, _, _)
TablesBefore(gs, n, w, qx, qo) ==
    IF n <= 1 THEN <<qx, qo>>
    ELSE LET t == TablesBefore(gs, n - 1, w, qx, qo)
             a == UpdateArgs(gs, n - 1, w)
         IN  IF a.agent = "X"
             THEN <<update_q_value(t[1], a.state, a.action, a.reward,
                                   a.next_state, a.next_available), t[2]>>
             ELSE <<t[1], update_q_value(t[2], a.state, a.action, a.reward,
                                         a.next_state, a.next_available)>>

\* max_next_q of update_q_value (lines 172-175)
max_next_q(q, next_state, available_actions) ==
    IF available_actions /= <<>> THEN MaxQ(q, next_state, available_actions)
    ELSE Float(0)

InUnitRange(v) == ~RLess(v, Float(-1)) /\ ~RLess(Float(1), v)

\* training games of pairings with a learning agent on either side or both
LearnPairings ==
    {<<Q_LEARNING, Q_LEARNING>>, <<Q_LEARNING, DEFENSIVE>>, <<AGGRESSIVE, Q_LEARNING>>}

PlayTrainingGame == play_self_game(TRUE, FALSE)

InitLearn == \E p \in LearnPairings : Constructed(p[1], p[2])

NextLearn == PlayTrainingGame \/ Turn

SpecLearn == InitLearn /\ [][NextLearn]_vars

\* C28: from empty tables, whatever the pairing and however many training
\* games were played, every update of update_q_learning finds a look-ahead
\* term of 0 and so replaces Q by Q + alpha * (reward - Q), and every value
\* of both tables lies in [-1, 1].
C28_NoLookAhead ==
    /\ \A x \in DOMAIN q_agent_x : InUnitRange(q_agent_x[x])
    /\ \A x \in DOMAIN q_agent_o : InUnitRange(q_agent_o[x])
    /\ (pc = "done" /\ Learning) =>
          /\ TablesBefore(game_states, Len(game_states) + 1, winner,
                          hist.q_before[1], hist.q_before[2]) = <<q_agent_x, q_agent_o>>
          /\ \A i \in 1..Len(game_states) :
                LET a  == UpdateArgs(game_states, i, winner)
                    k  == IF a.agent = "X" THEN 1 ELSE 2
                    q  == TablesBefore(game_states, i, winner,
                                       hist.q_before[1], hist.q_before[2])[k]
                    q2 == TablesBefore(game_states, i + 1, winner,
                                       hist.q_before[1], hist.q_before[2])[k]
                    current_q == get_q_value(q, a.state, a.action)
                IN  /\ max_next_q(q, a.next_state, a.next_available) = Float(0)
                    /\ get_q_value(q2, a.state, a.action) =
                          RAdd(current_q,
                               RMul(learning_rate, RSub(Float(a.reward), current_q)))

\* a second training game that X won with the opening it won the first with:
\* the opening's value was updated from a table that was no longer empty
C28_Witness ==
    /\ pc = "done"
    /\ Learning
    /\ hist.games = 2
    /\ winner = "X"
    /\ hist.q_before[1] /= EmptyTable
    /\ get_q_value(hist.q_before[1], game_states[1][1], game_states[1][2]) = <<1, 10>>
    /\ get_q_value(q_agent_x, game_states[1][1], game_states[1][2]) = <<19, 100>>

-----------------------------------------------------------------------------
(* The search against an opponent that plays any legal move: play_self_game
   with MINIMAX on one side and RANDOM (random.choice of the available moves)
   on the other *)

UnbeatenPairings == {<<MINIMAX, RANDOM>>, <<RANDOM, MINIMAX>>}

InitUnbeaten == \E p \in UnbeatenPairings : Constructed(p[1], p[2])

NextUnbeaten == PlayGame \/ Turn

SpecUnbeaten == InitUnbeaten /\ [][NextUnbeaten]_vars

\* C29: in a game from the empty board in which X plays get_best_move('X')
\* at every turn and O plays any legal moves, O never has three in a row and
\* the outcome is never O; with O playing get_best_move('O') and X any legal
\* moves, X never has three in a row and the outcome is never X.
C29_SearchNeverLoses ==
    /\ strategy_x = MINIMAX =>
          /\ check_winner(board) /= "O"
          /\ pc = "done" => winner \in {"X", "Tie"}
    /\ strategy_o = MINIMAX =>
          /\ check_winner(board) /= "X"
          /\ pc = "done" => winner \in {"O", "Tie"}

\* O, playing the search, held an X that took edge cell 1 to a tie on the
\* full board
C29_Witness ==
    /\ pc = "done"
    /\ strategy_x = RANDOM
    /\ strategy_o = MINIMAX
    /\ winner = "Tie"
    /\ Len(hist.movers) = 9
    /\ board[1] = "X"
    /\ Count(board, " ") = 0

-----------------------------------------------------------------------------
(* Termination of play_self_game: the while loop of lines 444-499 runs on the
   caller's thread and each iteration is one Turn, so a game that has been
   entered keeps taking turns while one is possible; whether another game is
   started is the caller's choice and is left unforced *)

\* ENABLED <<Turn>>_vars written out: the loop is running and the strategy of
\* the player to move hands back a cell (every other conjunct of Turn assigns
\* a primed variable, and hist.movers grows in every Turn)
TurnEnabled ==
    /\ pc = "loop"
    /\ \E r \in {get_move_by_strategy(board, current_player,
                                      IF current_player = "X" THEN strategy_x ELSE strategy_o,
                                      training, q_agent_x, q_agent_o)} :
          \E move \in r.ret : Exploratory(move) => hist.explores < MaxExplore

\* weak fairness of Turn, WF_vars(Turn), with its ENABLED written out
TurnFairness == []<>(~TurnEnabled) \/ []<><<Turn>>_vars

SpecLive == Init /\ [][Next]_vars /\ TurnFairness

C30_Bounds ==
    /\ (pc = "loop" /\ hist.movers = <<>>) =>
          /\ board = EmptyBoard
          /\ current_player = "X"
    /\ pc = "done" =>
          /\ winner \in {"X", "O", "Tie"}
          /\ Len(hist.movers) >= 5
          /\ Len(hist.movers) <= 9
          /\ Count(board, " ") = 9 - Len(hist.movers)

\* C30: for each of the 36 pairings and every outcome of the random choices,
\* a game that play_self_game has entered starts on the empty board with X to
\* move whatever the earlier games left, eventually returns, and returns X, O
\* or Tie after at least 5 and at most 9 plies.
C30_EveryGameTerminates == []C30_Bounds /\ ((pc = "loop") ~> (pc = "done"))

\* a second game, entered on the board the first one left, that X won with
\* its third mark
C30_Witness ==
    /\ pc = "done"
    /\ hist.games = 2
    /\ winner = "X"
    /\ Len(hist.movers) = 5
    /\ Count(board, "X") = 3

====
